---- MODULE Spec2Model ----
(***************************************************************************)
(* A model of the `icon` crate (zeroeightysix/icon):                       *)
(*   - IconLocations::resolve_only   (src/src/search.rs)                   *)
(*   - Theme::find_icon / find_icon_here (src/src/theme.rs)                *)
(*   - DirectoryIndex::matches_size / size_distance (src/src/theme.rs)     *)
(*   - Icons::find_icon (src/src/icon.rs)                                  *)
(*   - IconsCache and ThemeCache (src/src/cache.rs)                        *)
(*   - the IconSearch builder (src/src/search.rs)                          *)
(* Several specifications share the module: Spec (theme resolution),       *)
(* SpecFind (icon lookup in a resolved theme), SpecMatch (the              *)
(* per-directory size predicates), SpecIcons (lookup by theme name with    *)
(* the standalone icons), SpecCache (the theme caches) and SpecSearch (the  *)
(* IconSearch builder).  SpecTwice is Spec with a second call of           *)
(* resolve_only over the same descriptors.                                 *)
(***************************************************************************)
EXTENDS Integers, Sequences, FiniteSets, TLC

VARIABLES
    \* ---- theme resolution (search.rs) ----
    descriptors,    \* what load_single_theme yields for each theme name
    requested,      \* the theme_names argument of resolve_only
    pc,             \* position inside resolve_only
    themes,         \* collect_themes' map: name -> "unvisited" | "none" | "some"
    loads,          \* the names load_single_theme was called with, in order
    theme_chains,   \* name -> its chain (<<>> while not computed)
    theme_info,     \* the names whose info has not been taken yet
    full_themes,    \* name -> Option<Arc<Theme>>
    chains_done,    \* the chains the materialization loop has walked
    first_result,   \* outcome of an earlier resolve_only call (SpecTwice)
    \* ---- icon lookup (theme.rs) ----
    directory,      \* the DirectoryIndex the size predicates are asked about
    files,          \* the icon files that exist on disk
    overflow_checks,\* TRUE: arithmetic overflow panics (debug); FALSE: it wraps
    last,           \* the last query made and what it returned
    \* ---- Icons and the caches (icon.rs, cache.rs) ----
    icon_themes,    \* the keys of Icons::themes
    standalone_icons,\* Icons::standalone_icons: icon name -> IconFile
    cache,          \* theme name -> ThemeCache::cache (icon name -> entry)
    first_call,     \* icon name -> the cached lookup that populated its entry
    \* ---- the IconSearch builder (search.rs) ----
    search          \* the IconSearch value: its stage and its fields

resolveVars == <<descriptors, requested, pc, themes, loads, theme_chains,
                 theme_info, full_themes, chains_done, first_result>>
lookupVars == <<directory, files, overflow_checks, last>>
cacheVars == <<icon_themes, standalone_icons, cache, first_call, search>>
vars == <<descriptors, requested, pc, themes, loads, theme_chains,
          theme_info, full_themes, chains_done, first_result,
          directory, files, overflow_checks, last,
          icon_themes, standalone_icons, cache, first_call, search>>

(***************************************************************************)
(* Bounds of the model.                                                    *)
(***************************************************************************)
\* longest Inherits list a theme descriptor declares
MaxInherits == 2

\* the theme names that occur, as directories or as declared parents
ThemeNames == {"a", "b", "c", "hicolor"}
\* theme names that declare no parents in the model
LeafNames == {"c"}
\* the argument lists resolve_only is called with
RequestedChoices == {<<"a">>, <<"c", "a">>}

HICOLOR == "hicolor"

(***************************************************************************)
(* Sequence helpers.                                                       *)
(***************************************************************************)
Range(s) == {s[i] : i \in DOMAIN s}

NoDup(s) == \A i, j \in DOMAIN s : i # j => s[i] # s[j]

Reverse(s) == [i \in 1..Len(s) |-> s[Len(s) + 1 - i]]

Min(S) == CHOOSE x \in S : \A y \in S : x <= y

Max(S) == CHOOSE x \in S : \A y \in S : y <= x

Last(s) == s[Len(s)]

\* all sequences over S of length at most n without repetition
SeqsUpTo(S, n) == UNION {{s \in [1..k -> S] : NoDup(s)} : k \in 0..n}

(***************************************************************************)
(* Theme descriptors: the result of load_single_theme for a name.          *)
(***************************************************************************)
NotATheme == [loadable |-> FALSE, inherits |-> <<>>]

DescriptorChoices(name) ==
    {NotATheme} \cup
    {[loadable |-> TRUE, inherits |-> s] :
        s \in SeqsUpTo(ThemeNames, IF name \in LeafNames THEN 0 ELSE MaxInherits)}

LoadSingleTheme(name) == descriptors[name]

(***************************************************************************)
(* collect_themes: depth-first, memoized by name.                          *)
(* The state threaded through is [themes, loads].                          *)
(***************************************************************************)
RECURSIVE CollectThemes(_, _)
RECURSIVE CollectParents(_, _)

\* mutant: only a name that loaded is skipped, a failed name is loaded again
CollectThemesRetrying(name, st) ==
    IF st.themes[name] = "some"
    THEN st
    ELSE LET info == LoadSingleTheme(name)
             st1 == [themes |-> [st.themes EXCEPT
                                   ![name] = IF info.loadable THEN "some" ELSE "none"],
                     loads |-> Append(st.loads, name)]
         IN  IF ~info.loadable THEN st1 ELSE CollectParents(info.inherits, st1)

CollectThemes(name, st) ==
    IF st.themes[name] # "unvisited"
    THEN st
    ELSE LET info == LoadSingleTheme(name)
             st1 == [themes |-> [st.themes EXCEPT
                                   ![name] = IF info.loadable THEN "some" ELSE "none"],
                     loads |-> Append(st.loads, name)]
         IN  IF ~info.loadable THEN st1 ELSE CollectParents(info.inherits, st1)

CollectParents(parents, st) ==
    IF parents = <<>>
    THEN st
    ELSE CollectParents(Tail(parents), CollectThemes(Head(parents), st))

\* mutant: the unconditional collection of "hicolor" is left out
CollectRequestedOnly(names) ==
    CollectParents(names, [themes |-> [n \in ThemeNames |-> "unvisited"],
                           loads |-> <<>>])

\* the requested names, then "hicolor"
CollectAll(names) ==
    CollectThemes(HICOLOR,
        CollectParents(names, [themes |-> [n \in ThemeNames |-> "unvisited"],
                               loads |-> <<>>]))

\* pruning: the names whose descriptor loaded (theme_names after the unzip)
Surviving(ths) == {n \in ThemeNames : ths[n] = "some"}

(***************************************************************************)
(* The per-theme chain loop.                                               *)
(***************************************************************************)
\* mutant: retain leaves the first element of the chain alone
AddParentKeepingHead(chain, parent) ==
    <<Head(chain)>> \o SelectSeq(Tail(chain), LAMBDA x : x # parent) \o <<parent>>

\* chain.retain(|idx| *idx != parent_idx); chain.push(parent_idx)
AddParent(chain, parent) ==
    Append(SelectSeq(chain, LAMBDA x : x # parent), parent)

RECURSIVE AddParents(_, _, _)
\* the `for parent in &info.index.inherits` loop
AddParents(chain, parents, surviving) ==
    IF parents = <<>>
    THEN chain
    ELSE AddParents(IF Head(parents) \in surviving
                    THEN AddParent(chain, Head(parents))
                    ELSE chain,
                    Tail(parents), surviving)

\* one iteration of `while let Some(node_idx) = chain.get(cursor)`
ChainStep(st, surviving) ==
    LET node == st.chain[st.cursor + 1]
    IN  [chain  |-> AddParents(st.chain, descriptors[node].inherits, surviving),
         cursor |-> st.cursor + 1]

RECURSIVE ChainStates(_, _)
\* the chain and the cursor at the head of every iteration of the loop, the
\* last one being the state in which chain.get(cursor) is None
ChainStates(st, surviving) ==
    IF st.cursor >= Len(st.chain)
    THEN <<st>>
    ELSE <<st>> \o ChainStates(ChainStep(st, surviving), surviving)

RECURSIVE ChainLoop(_, _)
ChainLoop(st, surviving) ==
    IF st.cursor >= Len(st.chain)
    THEN st.chain
    ELSE ChainLoop(ChainStep(st, surviving), surviving)

\* mutant: the chain is left as the parent graph produced it
HicolorLeftInPlace(chain, surviving) == chain

\* the hicolor re-append after the loop
HicolorLast(chain, surviving) ==
    IF HICOLOR \in surviving THEN AddParent(chain, HICOLOR) ELSE chain

ChainOf(theme, surviving) ==
    HicolorLast(ChainLoop([chain |-> <<theme>>, cursor |-> 0], surviving), surviving)

(***************************************************************************)
(* Node materialization.                                                   *)
(***************************************************************************)
NoNode == [some |-> FALSE, inherits_from |-> <<>>]

\* `.skip(1)` of a chain
Parents(chain) == IF chain = <<>> THEN <<>> ELSE Tail(chain)

\* mutant: the ancestor references are taken without looking at whether the
\* ancestor's node exists
BuildNodeUnchecked(theme_idx, st, chains) ==
    IF st.panicked \/ theme_idx \notin st.info
    THEN st
    ELSE [info |-> st.info \ {theme_idx},
          full |-> [st.full EXCEPT
                      ![theme_idx] = [some |-> TRUE,
                                      inherits_from |-> Parents(chains[theme_idx])]],
          panicked |-> FALSE]

\* The body of `for theme_idx in chain.iter().copied().rev()` for one index.
\* st = [info, full, panicked]
BuildNode(theme_idx, st, chains) ==
    IF st.panicked \/ theme_idx \notin st.info
    THEN st     \* processed already (or unwinding)
    ELSE LET parents == Parents(chains[theme_idx])
             info1 == st.info \ {theme_idx}
         IN  IF \E i \in DOMAIN parents : ~st.full[parents[i]].some
             THEN [info |-> info1, full |-> st.full, panicked |-> TRUE]   \* unwrap of None
             ELSE [info |-> info1,
                   full |-> [st.full EXCEPT
                               ![theme_idx] = [some |-> TRUE, inherits_from |-> parents]],
                   panicked |-> FALSE]

RECURSIVE BuildAll(_, _, _)
BuildAll(order, st, chains) ==
    IF order = <<>>
    THEN st
    ELSE BuildAll(Tail(order), BuildNode(Head(order), st, chains), chains)

\* one iteration of `for chain in &theme_chains`
WalkChain(theme, st, chains) == BuildAll(Reverse(chains[theme]), st, chains)

(***************************************************************************)
(* resolve_only as a state machine.                                        *)
(***************************************************************************)
NotRun == [kind |-> "none", map |-> [n \in ThemeNames |-> NoNode]]

LookupIdle == [op |-> "none"]

NoDirectory == [directory_name |-> "none"]

\* no IconSearch has been constructed
NoSearch == [stage |-> "none"]

\* no Icons and no cache have been built
NoIcons ==
    /\ search = NoSearch
    /\ icon_themes = {}
    /\ standalone_icons = <<>>
    /\ cache = <<>>
    /\ first_call = <<>>

ResolveStart ==
    /\ pc = "start"
    /\ themes = [n \in ThemeNames |-> "unvisited"]
    /\ loads = <<>>
    /\ theme_chains = [n \in ThemeNames |-> <<>>]
    /\ theme_info = {}
    /\ full_themes = [n \in ThemeNames |-> NoNode]
    /\ chains_done = {}

InitResolve ==
    /\ descriptors \in {d \in [ThemeNames -> UNION {DescriptorChoices(n) : n \in ThemeNames}] :
                            \A n \in ThemeNames : d[n] \in DescriptorChoices(n)}
    /\ requested \in RequestedChoices
    /\ ResolveStart
    /\ first_result = NotRun
    /\ directory = NoDirectory
    /\ files = {}
    /\ overflow_checks = FALSE
    /\ last = LookupIdle
    /\ NoIcons

\* lines 413-443: collection, pruning, unzip
Collect ==
    /\ pc = "start"
    /\ LET st == CollectAll(requested)
       IN  /\ themes' = st.themes
           /\ loads' = st.loads
           /\ theme_info' = Surviving(st.themes)
    /\ pc' = "pruned"
    /\ UNCHANGED <<descriptors, requested, theme_chains, full_themes, chains_done,
                   first_result, lookupVars, cacheVars>>

\* lines 445-488: every theme's chain
ComputeChains ==
    /\ pc = "pruned"
    /\ theme_chains' = [n \in ThemeNames |->
                          IF n \in Surviving(themes)
                          THEN ChainOf(n, Surviving(themes))
                          ELSE <<>>]
    /\ pc' = "chained"
    /\ UNCHANGED <<descriptors, requested, themes, loads, theme_info, full_themes,
                   chains_done, first_result, lookupVars, cacheVars>>

\* lines 500-527: the next chain of theme_chains, in the order the hash map
\* enumerated the themes (any order)
MaterializeChain(theme) ==
    /\ pc = "chained"
    /\ theme \in Surviving(themes) \ chains_done
    /\ LET st == WalkChain(theme,
                           [info |-> theme_info, full |-> full_themes, panicked |-> FALSE],
                           theme_chains)
       IN  /\ theme_info' = st.info
           /\ full_themes' = st.full
           /\ pc' = IF st.panicked THEN "panicked" ELSE "chained"
    /\ chains_done' = chains_done \cup {theme}
    /\ UNCHANGED <<descriptors, requested, themes, loads, theme_chains,
                   first_result, lookupVars, cacheVars>>

\* lines 529-543: unwrap every node and zip with the names
Finish ==
    /\ pc = "chained"
    /\ chains_done = Surviving(themes)
    /\ pc' = IF \A n \in Surviving(themes) : full_themes[n].some THEN "done" ELSE "panicked"
    /\ UNCHANGED <<descriptors, requested, themes, loads, theme_chains, theme_info,
                   full_themes, chains_done, first_result, lookupVars, cacheVars>>

NextResolve ==
    \/ Collect
    \/ ComputeChains
    \/ \E theme \in ThemeNames : MaterializeChain(theme)
    \/ Finish

Spec == InitResolve /\ [][NextResolve]_vars

\* What a call of resolve_only produced.
Outcome == [kind |-> pc, map |-> full_themes]

\* A second call of resolve_only on the same IconLocations.
ResolveAgain ==
    /\ pc \in {"done", "panicked"}
    /\ first_result = NotRun
    /\ first_result' = Outcome
    /\ pc' = "start"
    /\ themes' = [n \in ThemeNames |-> "unvisited"]
    /\ loads' = <<>>
    /\ theme_chains' = [n \in ThemeNames |-> <<>>]
    /\ theme_info' = {}
    /\ full_themes' = [n \in ThemeNames |-> NoNode]
    /\ chains_done' = {}
    /\ UNCHANGED <<descriptors, requested, lookupVars, cacheVars>>

NextTwice ==
    \/ Collect
    \/ ComputeChains
    \/ \E theme \in ThemeNames : MaterializeChain(theme)
    \/ Finish
    \/ ResolveAgain

SpecTwice == InitResolve /\ [][NextTwice]_vars

(***************************************************************************)
(* u32 arithmetic.  A u32 is kept as two 16-bit limbs, [hi, lo], so that   *)
(* wrapped values above 2^31 can be held; every operation returns the      *)
(* wrapped value v and whether it overflowed, o.                           *)
(***************************************************************************)
B16 == 65536

U32Of(n) == [hi |-> n \div B16, lo |-> n % B16]

U32MAX == [hi |-> B16 - 1, lo |-> B16 - 1]

U32ZERO == [hi |-> 0, lo |-> 0]

LtU32(x, y) == x.hi < y.hi \/ (x.hi = y.hi /\ x.lo < y.lo)

LeU32(x, y) == ~LtU32(y, x)

\* x + y
AddU32(x, y) ==
    LET lo == x.lo + y.lo
        hi == x.hi + y.hi + (lo \div B16)
    IN  [v |-> [hi |-> hi % B16, lo |-> lo % B16], o |-> hi >= B16]

\* x - y
SubU32(x, y) ==
    LET lo == x.lo - y.lo
        borrow == IF lo < 0 THEN 1 ELSE 0
        hi == x.hi - y.hi - borrow
    IN  [v |-> [hi |-> (hi + B16) % B16, lo |-> (lo + B16) % B16], o |-> hi < 0]

\* the 32-bit product of two 16-bit limbs
LimbProduct(a, b) ==
    LET u == (a \div 256) * b
        w == (a % 256) * b
        lo == (u % 256) * 256 + (w % B16)
    IN  [hi |-> (u \div 256) + (w \div B16) + (lo \div B16), lo |-> lo % B16]

\* x * y
MulU32(x, y) ==
    LET ll == LimbProduct(x.lo, y.lo)
        hl == LimbProduct(x.hi, y.lo)
        lh == LimbProduct(x.lo, y.hi)
        hi == ll.hi + hl.lo + lh.lo
    IN  [v |-> [hi |-> hi % B16, lo |-> ll.lo],
         o |-> \/ hi >= B16
               \/ hl.hi > 0
               \/ lh.hi > 0
               \/ (x.hi > 0 /\ y.hi > 0)]

\* u32::abs_diff: never overflows
AbsDiffU32(x, y) == IF LtU32(x, y) THEN SubU32(y, x).v ELSE SubU32(x, y).v

(***************************************************************************)
(* DirectoryIndex: matches_size and size_distance.                         *)
(* A directory is [directory_name, directory_type, size, scale, min_size,  *)
(* max_size, threshold], numbers below 2^31.                               *)
(***************************************************************************)
\* mutant: the Threshold window is open at its ends
MatchesSizeStrict(dir, icon_size, icon_scale) ==
    /\ dir.scale = icon_scale
    /\ CASE dir.directory_type = "Fixed" -> dir.size = icon_size
         [] dir.directory_type = "Scalable" ->
                LeU32(U32Of(dir.min_size), U32Of(icon_size))
                    /\ LeU32(U32Of(icon_size), U32Of(dir.max_size))
         [] dir.directory_type = "Threshold" ->
                LtU32(AbsDiffU32(U32Of(dir.size), U32Of(icon_size)), U32Of(dir.threshold))

MatchesSize(dir, icon_size, icon_scale) ==
    IF dir.scale # icon_scale
    THEN FALSE
    ELSE CASE dir.directory_type = "Fixed" -> dir.size = icon_size
           [] dir.directory_type = "Scalable" ->
                  \* (min_size..=max_size).contains(&icon_size)
                  LeU32(U32Of(dir.min_size), U32Of(icon_size))
                      /\ LeU32(U32Of(icon_size), U32Of(dir.max_size))
           [] dir.directory_type = "Threshold" ->
                  LeU32(AbsDiffU32(U32Of(dir.size), U32Of(icon_size)), U32Of(dir.threshold))

\* mutant: the scale is a gate, a request of another scale is infinitely far
SizeDistanceScaleGated(dir, icon_size, icon_scale, checks) ==
    LET size == MulU32(U32Of(icon_size), U32Of(icon_scale))
        scale == U32Of(dir.scale)
    IN  IF dir.scale # icon_scale
        THEN [panic |-> FALSE, value |-> U32MAX]
        ELSE IF dir.directory_type \in {"Fixed", "Scalable"}
        THEN LET nominal == MulU32(U32Of(dir.size), scale)
             IN  [panic |-> checks /\ (size.o \/ nominal.o),
                  value |-> AbsDiffU32(nominal.v, size.v)]
        ELSE LET sub == SubU32(U32Of(dir.size), U32Of(dir.threshold))
                 lower == MulU32(sub.v, scale)
                 add == AddU32(U32Of(dir.size), U32Of(dir.threshold))
                 higher == MulU32(add.v, scale)
                 lo_bound == MulU32(U32Of(dir.min_size), scale)
                 hi_bound == MulU32(U32Of(dir.max_size), scale)
                 early == size.o \/ sub.o \/ lower.o \/ add.o \/ higher.o
             IN  IF LtU32(size.v, lower.v)
                 THEN [panic |-> checks /\ (early \/ lo_bound.o),
                       value |-> AbsDiffU32(size.v, lo_bound.v)]
                 ELSE IF LtU32(higher.v, size.v)
                 THEN [panic |-> checks /\ (early \/ hi_bound.o),
                       value |-> AbsDiffU32(size.v, hi_bound.v)]
                 ELSE [panic |-> checks /\ early, value |-> U32ZERO]

\* size_distance, returning [panic, value]: with overflow checks (a debug
\* build) an overflowing operation panics, without them it wraps.
SizeDistance(dir, icon_size, icon_scale, checks) ==
    LET size == MulU32(U32Of(icon_size), U32Of(icon_scale))
        scale == U32Of(dir.scale)
    IN  IF dir.directory_type \in {"Fixed", "Scalable"}
        THEN LET nominal == MulU32(U32Of(dir.size), scale)
             IN  [panic |-> checks /\ (size.o \/ nominal.o),
                  value |-> AbsDiffU32(nominal.v, size.v)]
        ELSE LET sub == SubU32(U32Of(dir.size), U32Of(dir.threshold))
                 lower == MulU32(sub.v, scale)
                 add == AddU32(U32Of(dir.size), U32Of(dir.threshold))
                 higher == MulU32(add.v, scale)
                 lo_bound == MulU32(U32Of(dir.min_size), scale)
                 hi_bound == MulU32(U32Of(dir.max_size), scale)
                 early == size.o \/ sub.o \/ lower.o \/ add.o \/ higher.o
             IN  IF LtU32(size.v, lower.v)
                 THEN [panic |-> checks /\ (early \/ lo_bound.o),
                       value |-> AbsDiffU32(size.v, lo_bound.v)]
                 ELSE IF LtU32(higher.v, size.v)
                 THEN [panic |-> checks /\ (early \/ hi_bound.o),
                       value |-> AbsDiffU32(size.v, hi_bound.v)]
                 ELSE [panic |-> checks /\ early, value |-> U32ZERO]

(***************************************************************************)
(* The size predicates as a state machine: a directory of a parsed index   *)
(* and calls of matches_size and size_distance on it.                      *)
(***************************************************************************)
\* largest request size of the window around 32 that is asked
MaxRequestSize == 35

\* three times BigSize is 2^32 + 2
BigSize == 1431655765 + 1

DirectoryTypes == {"Fixed", "Scalable", "Threshold"}
DirSizes == {1, 32, 48, BigSize}
Scales == {1, 2, 3}
MinSizes == {1, 16, 48}
MaxSizes == {32, 48, 256}
Thresholds == {0, 2, 3}
RequestSizes == (0..4) \cup {15, 16, 17} \cup (29..MaxRequestSize) \cup {48, 256, BigSize}

\* what DirectoryIndex::parse accepts: any u32 in every numeric field
MatchDirectories ==
    [directory_name : {"dir"}, directory_type : DirectoryTypes, size : DirSizes,
     scale : Scales, min_size : MinSizes, max_size : MaxSizes, threshold : Thresholds]

InitMatch ==
    /\ directory \in MatchDirectories
    /\ overflow_checks \in BOOLEAN
    /\ last = LookupIdle
    /\ NoIcons
    /\ files = {}
    /\ descriptors = [n \in ThemeNames |-> NotATheme]
    /\ requested = <<>>
    /\ ResolveStart
    /\ first_result = NotRun

CallMatchesSize(icon_size, icon_scale) ==
    /\ last = LookupIdle
    /\ last' = [op |-> "matches_size", size |-> icon_size, scale |-> icon_scale,
                result |-> MatchesSize(directory, icon_size, icon_scale)]
    /\ UNCHANGED <<resolveVars, directory, files, overflow_checks, cacheVars>>

CallSizeDistance(icon_size, icon_scale) ==
    /\ last = LookupIdle
    /\ last' = [op |-> "size_distance", size |-> icon_size, scale |-> icon_scale,
                result |-> SizeDistance(directory, icon_size, icon_scale, overflow_checks)]
    /\ UNCHANGED <<resolveVars, directory, files, overflow_checks, cacheVars>>

\* the caller has taken the result; the next call can be made
Return ==
    /\ last # LookupIdle
    /\ last' = LookupIdle
    /\ UNCHANGED <<resolveVars, directory, files, overflow_checks, cacheVars>>

NextMatch ==
    \/ \E icon_size \in RequestSizes, icon_scale \in Scales :
          \/ CallMatchesSize(icon_size, icon_scale)
          \/ CallSizeDistance(icon_size, icon_scale)
    \/ Return

SpecMatch == InitMatch /\ [][NextMatch]_vars

(***************************************************************************)
(* Icon files and icon lookup in a resolved theme (theme.rs, icon.rs).     *)
(* A file name is the sequence of its dot-separated parts; a path is       *)
(* [base, dir, file].                                                      *)
(***************************************************************************)
\* most icon files that exist on disk
MaxFiles == 2

EXTENSIONS == <<"png", "xpm", "svg">>

\* FileType::from_path_ext
FileTypeFromExt(ext) ==
    CASE ext = "png" -> "Png"
      [] ext = "xpm" -> "Xpm"
      [] ext = "svg" -> "Svg"
      [] OTHER -> "None"

NoIconFile == [path |-> [base |-> "", dir |-> "", file |-> <<>>], file_type |-> "None"]

\* IconFile::from_path: a file stem and a recognized extension are needed.
\* Path::extension is the part after the last dot, and there is none when
\* the only dot is the leading one.
FromPath(path) ==
    LET parts == path.file
    IN  IF Len(parts) < 2 \/ (Len(parts) = 2 /\ parts[1] = "")
        THEN NoIconFile
        ELSE IF FileTypeFromExt(Last(parts)) = "None"
        THEN NoIconFile
        ELSE [path |-> path, file_type |-> FileTypeFromExt(Last(parts))]

\* format!("{icon_name}.{ext}")
FileName(icon_name, ext) == Append(icon_name, ext)

\* base_dir.join(sub_dir.directory_name).join(file_name)
JoinPath(base_dir, sub_dir, file_name) ==
    [base |-> base_dir, dir |-> sub_dir.directory_name, file |-> file_name]

\* the element of a one-element set; {F(x) : x \in {e}} computes e once
Value(singleton) == CHOOSE x \in singleton : TRUE

RECURSIVE Flatten(_)
Flatten(ss) == IF ss = <<>> THEN <<>> ELSE Head(ss) \o Flatten(Tail(ss))

Dir(name, type, size, scale, min_size, max_size, threshold) ==
    [directory_name |-> name, directory_type |-> type, size |-> size, scale |-> scale,
     min_size |-> min_size, max_size |-> max_size, threshold |-> threshold]

\* The resolved themes icons are looked up in: a inherits b, and both get
\* hicolor appended by resolve_only.
LookupThemeNames == {"a", "b", HICOLOR}

DirsFull ==
    << Dir("16x16", "Fixed", 16, 1, 16, 16, 2),
       Dir("48x48", "Fixed", 48, 1, 48, 48, 2),
       Dir("32x32", "Threshold", 32, 1, 32, 32, 2),
       Dir("scalable", "Scalable", 48, 1, 16, 64, 2),
       Dir("16x16@2", "Fixed", 16, 2, 16, 16, 2) >>

DirsSmall ==
    << Dir("16x16", "Fixed", 16, 1, 16, 16, 2),
       Dir("32x32", "Threshold", 32, 1, 32, 32, 2) >>

LookupThemes ==
    [n \in LookupThemeNames |->
        CASE n = "a" -> [base_dirs |-> <<"home/a", "usr/a">>, directories |-> DirsFull,
                         inherits_from |-> <<"b", HICOLOR>>]
          [] n = "b" -> [base_dirs |-> <<"usr/b">>, directories |-> DirsSmall,
                         inherits_from |-> <<HICOLOR>>]
          [] OTHER   -> [base_dirs |-> <<"usr/hicolor">>, directories |-> DirsSmall,
                         inherits_from |-> <<>>]]

IconNames == {<<"gear">>}
LookupSizes == {16, 32, 40}
LookupScales == {1, 2}

\* every path a lookup can probe
AllPaths ==
    UNION {{JoinPath(LookupThemes[n].base_dirs[b], LookupThemes[n].directories[d],
                     FileName(i, EXTENSIONS[e])) :
                b \in DOMAIN LookupThemes[n].base_dirs,
                d \in DOMAIN LookupThemes[n].directories,
                e \in DOMAIN EXTENSIONS,
                i \in IconNames} : n \in LookupThemeNames}

\* path.exists()
Exists(path) == path \in files

Found(file) == [kind |-> "file", file |-> file]
NotFound == [kind |-> "none", file |-> NoIconFile]
Panicked == [kind |-> "panic", file |-> NoIconFile]

\* the paths the exact pass probes, in dir-major order (mutant)
ExactCandidatesDirMajor(theme, icon_name, size, scale) ==
    LET exact_sub_dirs == SelectSeq(theme.directories,
                                    LAMBDA d : MatchesSize(d, size, scale))
    IN  Flatten([d \in DOMAIN exact_sub_dirs |->
            Flatten([b \in DOMAIN theme.base_dirs |->
                [e \in DOMAIN EXTENSIONS |->
                    JoinPath(theme.base_dirs[b], exact_sub_dirs[d],
                             FileName(icon_name, EXTENSIONS[e]))]])])

\* the paths the exact pass probes, in the order it probes them
ExactCandidates(theme, icon_name, size, scale) ==
    LET exact_sub_dirs == SelectSeq(theme.directories,
                                    LAMBDA d : MatchesSize(d, size, scale))
    IN  Flatten([b \in DOMAIN theme.base_dirs |->
            Flatten([d \in DOMAIN exact_sub_dirs |->
                [e \in DOMAIN EXTENSIONS |->
                    JoinPath(theme.base_dirs[b], exact_sub_dirs[d],
                             FileName(icon_name, EXTENSIONS[e]))]])])

RECURSIVE FirstFile(_)
\* the first probed path that exists and is an icon file
FirstFile(paths) ==
    IF paths = <<>>
    THEN NotFound
    ELSE IF Exists(Head(paths)) /\ FromPath(Head(paths)) # NoIconFile
    THEN Found(FromPath(Head(paths)))
    ELSE FirstFile(Tail(paths))

RECURSIVE ProbeExtensions(_, _, _, _, _)
\* the `for file_name in &file_names` loop of the closest pass: it does not
\* stop at the first file
ProbeExtensions(exts, base_dir, sub_dir, icon_name, st) ==
    IF exts = <<>>
    THEN st
    ELSE LET path == JoinPath(base_dir, sub_dir, FileName(icon_name, Head(exts)))
             probed == IF Exists(path) /\ FromPath(path) # NoIconFile
                       THEN [st EXCEPT !.min_dist = st.distance,
                                       !.best_icon = Found(FromPath(path))]
                       ELSE st
         IN  Value({ProbeExtensions(Tail(exts), base_dir, sub_dir, icon_name, next) :
                        next \in {probed}})

\* the body of `for sub_dir in sub_dirs` of the closest pass
\* st = [min_dist, best_icon, distance, panic]
ClosestStep(base_dir, sub_dir, icon_name, size, scale, checks, st) ==
    IF st.panic
    THEN st
    ELSE Value({IF distance.panic
                THEN [st EXCEPT !.panic = TRUE]
                ELSE IF LtU32(distance.value, st.min_dist)
                THEN ProbeExtensions(EXTENSIONS, base_dir, sub_dir, icon_name,
                                     [st EXCEPT !.distance = distance.value])
                ELSE st :
                    distance \in {SizeDistance(sub_dir, size, scale, checks)}})

RECURSIVE ClosestLoop(_, _, _, _, _, _)
\* pairs: the (base_dir, sub_dir) pairs in the order of the two loops
ClosestLoop(pairs, icon_name, size, scale, checks, st) ==
    IF pairs = <<>>
    THEN st
    ELSE Value({ClosestLoop(Tail(pairs), icon_name, size, scale, checks, next) :
                    next \in {ClosestStep(Head(pairs)[1], Head(pairs)[2], icon_name,
                                          size, scale, checks, st)}})

ClosestPairs(theme) ==
    Flatten([b \in DOMAIN theme.base_dirs |->
                [d \in DOMAIN theme.directories |->
                    <<theme.base_dirs[b], theme.directories[d]>>]])

\* Theme::find_icon_here
FindIconHere(theme, icon_name, size, scale, checks) ==
    LET exact == FirstFile(ExactCandidates(theme, icon_name, size, scale))
    IN  IF exact.kind = "file"
        THEN exact
        ELSE LET st == ClosestLoop(ClosestPairs(theme), icon_name, size, scale, checks,
                                   [min_dist |-> U32MAX, best_icon |-> NotFound,
                                    distance |-> U32MAX, panic |-> FALSE])
             IN  IF st.panic THEN Panicked ELSE st.best_icon

RECURSIVE FindMap(_, _, _, _, _)
\* inherits_from.iter().find_map(|theme| theme.find_icon_here(..))
FindMap(names, icon_name, size, scale, checks) ==
    IF names = <<>>
    THEN NotFound
    ELSE LET r == FindIconHere(LookupThemes[Head(names)], icon_name, size, scale, checks)
         IN  IF r.kind # "none"
             THEN r
             ELSE FindMap(Tail(names), icon_name, size, scale, checks)

\* mutant: the ancestors are consulted before the theme itself
FindIconAncestorsFirst(theme, icon_name, size, scale, checks) ==
    LET r == FindMap(theme.inherits_from, icon_name, size, scale, checks)
    IN  IF r.kind # "none"
        THEN r
        ELSE FindIconHere(theme, icon_name, size, scale, checks)

\* Theme::find_icon
FindIcon(theme, icon_name, size, scale, checks) ==
    LET r == FindIconHere(theme, icon_name, size, scale, checks)
    IN  IF r.kind # "none"
        THEN r
        ELSE FindMap(theme.inherits_from, icon_name, size, scale, checks)

InitFind ==
    /\ files \in {Range(s) : s \in SeqsUpTo(AllPaths, MaxFiles)}
    /\ overflow_checks \in BOOLEAN
    /\ last = LookupIdle
    /\ NoIcons
    /\ directory = NoDirectory
    /\ descriptors = [n \in ThemeNames |-> NotATheme]
    /\ requested = <<>>
    /\ ResolveStart
    /\ first_result = NotRun

CallFindIconHere(theme_name, icon_name, size, scale) ==
    /\ last = LookupIdle
    /\ last' = [op |-> "find_icon_here", theme |-> theme_name, icon_name |-> icon_name,
                size |-> size, scale |-> scale,
                result |-> FindIconHere(LookupThemes[theme_name], icon_name, size, scale,
                                        overflow_checks)]
    /\ UNCHANGED <<resolveVars, directory, files, overflow_checks, cacheVars>>

CallFindIcon(theme_name, icon_name, size, scale) ==
    /\ last = LookupIdle
    /\ last' = [op |-> "find_icon", theme |-> theme_name, icon_name |-> icon_name,
                size |-> size, scale |-> scale,
                result |-> FindIcon(LookupThemes[theme_name], icon_name, size, scale,
                                    overflow_checks)]
    /\ UNCHANGED <<resolveVars, directory, files, overflow_checks, cacheVars>>

NextFind ==
    \/ \E theme_name \in LookupThemeNames, icon_name \in IconNames,
          size \in LookupSizes, scale \in LookupScales :
          \/ CallFindIconHere(theme_name, icon_name, size, scale)
          \/ CallFindIcon(theme_name, icon_name, size, scale)
    \/ Return

SpecFind == InitFind /\ [][NextFind]_vars

(***************************************************************************)
(* ThemeCache (cache.rs): per icon name, the memoized candidate list.      *)
(* An entry is [present, icon_files]; icon_files is a sequence of          *)
(* [dir, ico] pairs, dir an index into the theme's directories.            *)
(***************************************************************************)
NoEntry == [present |-> FALSE, icon_files |-> <<>>]

\* the icon names a cache is asked about
CacheIconNames == {<<"gear">>, <<"star">>}

\* ThemeCache::from: an empty cache
EmptyCache == [n \in CacheIconNames |-> NoEntry]

\* Theme::find_icon_files: every existing icon file of the name in the
\* theme's own directories, by base location, directory and extension
FindIconFiles(theme, icon_name) ==
    LET all == Flatten([b \in DOMAIN theme.base_dirs |->
                   Flatten([d \in DOMAIN theme.directories |->
                       [e \in DOMAIN EXTENSIONS |->
                           [dir |-> d,
                            path |-> JoinPath(theme.base_dirs[b], theme.directories[d],
                                              FileName(icon_name, EXTENSIONS[e]))]]])])
        found == SelectSeq(all, LAMBDA c : Exists(c.path) /\ FromPath(c.path) # NoIconFile)
    IN  [i \in DOMAIN found |-> [dir |-> found[i].dir, ico |-> FromPath(found[i].path)]]

RECURSIVE MinByKey(_, _, _)
\* Iterator::min_by_key over keyed[best..]: the first of several equally
\* minimum elements is returned
MinByKey(keyed, i, best) ==
    IF i > Len(keyed)
    THEN best
    ELSE MinByKey(keyed, i + 1,
                  IF LtU32(keyed[i].key, keyed[best].key) THEN i ELSE best)

\* the selection of ThemeCache::find_icon_here over a candidate list
SelectCached(theme, icon_files, size, scale, checks) ==
    LET exact == SelectSeq(icon_files,
                           LAMBDA c : MatchesSize(theme.directories[c.dir], size, scale))
        dists == [i \in DOMAIN icon_files |->
                     SizeDistance(theme.directories[icon_files[i].dir], size, scale, checks)]
        keyed == [i \in DOMAIN icon_files |-> [key |-> dists[i].value]]
    IN  IF exact # <<>>
        THEN Found(exact[1].ico)
        ELSE IF \E i \in DOMAIN dists : dists[i].panic
        THEN Panicked
        ELSE IF icon_files = <<>>
        THEN NotFound
        ELSE Found(icon_files[MinByKey(keyed, 2, 1)].ico)

\* mutant: the candidate list is computed on every call
CachedFindIconHereRescan(theme, theme_cache, icon_name, size, scale, checks) ==
    Value({[result |-> SelectCached(theme, icon_files, size, scale, checks),
            cache |-> [theme_cache EXCEPT ![icon_name] =
                           [present |-> TRUE, icon_files |-> icon_files]],
            scanned |-> TRUE] :
               icon_files \in {FindIconFiles(theme, icon_name)}})

\* mutant: on a miss only the candidate that is returned is stored
CachedFindIconHerePartial(theme, theme_cache, icon_name, size, scale, checks) ==
    LET hit == theme_cache[icon_name].present
        all == IF hit
               THEN theme_cache[icon_name].icon_files
               ELSE FindIconFiles(theme, icon_name)
        result == SelectCached(theme, all, size, scale, checks)
        icon_files == IF hit THEN all ELSE SelectSeq(all, LAMBDA c : Found(c.ico) = result)
    IN  [result |-> result,
         cache |-> [theme_cache EXCEPT ![icon_name] =
                        [present |-> TRUE, icon_files |-> icon_files]],
         scanned |-> ~hit]

\* mutant: a name without files gets no entry
CachedFindIconHereNoEmpty(theme, theme_cache, icon_name, size, scale, checks) ==
    LET hit == theme_cache[icon_name].present
        icon_files == IF hit
                      THEN theme_cache[icon_name].icon_files
                      ELSE FindIconFiles(theme, icon_name)
    IN  [result |-> SelectCached(theme, icon_files, size, scale, checks),
         cache |-> IF icon_files = <<>>
                   THEN theme_cache
                   ELSE [theme_cache EXCEPT ![icon_name] =
                             [present |-> TRUE, icon_files |-> icon_files]],
         scanned |-> ~hit]

\* ThemeCache::find_icon_here: [result, cache, scanned]; scanned tells
\* whether find_icon_files went to the file system
CachedFindIconHere(theme, theme_cache, icon_name, size, scale, checks) ==
    LET hit == theme_cache[icon_name].present
    IN  Value({[result |-> SelectCached(theme, icon_files, size, scale, checks),
                cache |-> [theme_cache EXCEPT ![icon_name] =
                               [present |-> TRUE, icon_files |-> icon_files]],
                scanned |-> ~hit] :
                   icon_files \in {IF hit
                                   THEN theme_cache[icon_name].icon_files
                                   ELSE FindIconFiles(theme, icon_name)}})

RECURSIVE Probed(_, _, _, _, _)
\* the ancestors find_map calls find_icon_here on: up to the first hit
Probed(names, icon_name, size, scale, checks) ==
    IF names = <<>>
    THEN <<>>
    ELSE IF FindIconHere(LookupThemes[Head(names)], icon_name, size, scale, checks).kind
                # "none"
    THEN <<Head(names)>>
    ELSE <<Head(names)>> \o Probed(Tail(names), icon_name, size, scale, checks)

\* ThemeCache::find_icon: [result, cache, scanned, here, probed]; here is
\* what the theme's own find_icon_here gave, probed lists the ancestors whose
\* directories were searched on disk
CachedFindIcon(theme, theme_cache, icon_name, size, scale, checks) ==
    Value({IF here.result.kind # "none"
           THEN [result |-> here.result, cache |-> here.cache, scanned |-> here.scanned,
                 here |-> here.result, probed |-> <<>>]
           ELSE [result |-> FindMap(theme.inherits_from, icon_name, size, scale, checks),
                 cache |-> here.cache, scanned |-> here.scanned,
                 here |-> here.result,
                 probed |-> Probed(theme.inherits_from, icon_name, size, scale, checks)] :
               here \in {CachedFindIconHere(theme, theme_cache, icon_name, size, scale,
                                            checks)}})

(***************************************************************************)
(* Icons and IconsCache (icon.rs, cache.rs): lookup by theme name with the *)
(* hicolor fallback and the standalone icons.                              *)
(***************************************************************************)
\* the empty string as an icon name
EmptyName == <<"">>

\* Icons::find_standalone_icon
FindStandaloneIcon(icon_name) ==
    IF icon_name \in DOMAIN standalone_icons
    THEN Found(standalone_icons[icon_name])
    ELSE NotFound

NoTheme == "no theme"

\* mutant: an unknown theme name gives no theme
ThemeOrNothing(theme_name) ==
    IF theme_name \in icon_themes THEN theme_name ELSE NoTheme

\* self.theme(theme).or_else(|| self.theme("hicolor"))
ThemeOrHicolor(theme_name) ==
    IF theme_name \in icon_themes
    THEN theme_name
    ELSE IF HICOLOR \in icon_themes THEN HICOLOR ELSE NoTheme

\* mutant: the standalone icons are consulted before the themes
IconsFindIconStandaloneFirst(icon_name, size, scale, theme_name, checks) ==
    IF icon_name = EmptyName
    THEN NotFound
    ELSE IF FindStandaloneIcon(icon_name).kind # "none"
    THEN FindStandaloneIcon(icon_name)
    ELSE IF ThemeOrHicolor(theme_name) = NoTheme
    THEN NotFound
    ELSE FindIcon(LookupThemes[ThemeOrHicolor(theme_name)], icon_name, size, scale, checks)

\* Icons::find_icon
IconsFindIcon(icon_name, size, scale, theme_name, checks) ==
    IF icon_name = EmptyName
    THEN NotFound
    ELSE IF ThemeOrHicolor(theme_name) = NoTheme
    THEN NotFound
    ELSE LET r == FindIcon(LookupThemes[ThemeOrHicolor(theme_name)], icon_name,
                           size, scale, checks)
         IN  IF r.kind # "none" THEN r ELSE FindStandaloneIcon(icon_name)

\* IconsCache::find_icon: [result, cache], cache the map of all theme caches
IconsCacheFindIcon(icon_name, size, scale, theme_name, checks) ==
    IF icon_name = EmptyName
    THEN [result |-> NotFound, cache |-> cache]
    ELSE IF ThemeOrHicolor(theme_name) = NoTheme
    THEN [result |-> NotFound, cache |-> cache]
    ELSE LET chosen == ThemeOrHicolor(theme_name)
         IN  Value({[result |-> IF r.result.kind # "none"
                                THEN r.result
                                ELSE FindStandaloneIcon(icon_name),
                     cache |-> [cache EXCEPT ![chosen] = r.cache]] :
                        r \in {CachedFindIcon(LookupThemes[chosen], cache[chosen],
                                              icon_name, size, scale, checks)}})

\* the files of the themes that exist when Icons is asked
IconsPaths ==
    { JoinPath("home/a", DirsFull[1], <<"gear", "png">>),
      JoinPath("usr/b", DirsSmall[2], <<"gear", "png">>),
      JoinPath("usr/hicolor", DirsSmall[1], <<"gear", "svg">>) }

\* a standalone icon, found at the top level of a search directory
StandaloneGear == FromPath([base |-> "usr/pixmaps", dir |-> "", file |-> <<"gear", "xpm">>])

\* the theme maps resolve() yields: no theme installed, hicolor only, ...
IconThemeSets == {{}, {HICOLOR}, {"b", HICOLOR}, {"a", "b", HICOLOR}}

\* the theme argument: a resolved theme or a name that is no theme
ThemeArguments == LookupThemeNames \cup {"unknown"}

InitIcons ==
    /\ files \in SUBSET IconsPaths
    /\ icon_themes \in IconThemeSets
    /\ standalone_icons \in {<<>>, [n \in {<<"gear">>} |-> StandaloneGear]}
    /\ cache = [t \in icon_themes |-> EmptyCache]
    /\ first_call = <<>>
    /\ search = NoSearch
    /\ overflow_checks \in BOOLEAN
    /\ last = LookupIdle
    /\ directory = NoDirectory
    /\ descriptors = [n \in ThemeNames |-> NotATheme]
    /\ requested = <<>>
    /\ ResolveStart
    /\ first_result = NotRun

CallIconsFindIcon(icon_name, size, scale, theme_name) ==
    /\ last = LookupIdle
    /\ last' = [op |-> "Icons::find_icon", theme |-> theme_name, icon_name |-> icon_name,
                size |-> size, scale |-> scale,
                result |-> IconsFindIcon(icon_name, size, scale, theme_name,
                                         overflow_checks)]
    /\ UNCHANGED <<resolveVars, directory, files, overflow_checks, cacheVars>>

CallIconsCacheFindIcon(icon_name, size, scale, theme_name) ==
    /\ last = LookupIdle
    /\ \E r \in {IconsCacheFindIcon(icon_name, size, scale, theme_name, overflow_checks)} :
           /\ last' = [op |-> "IconsCache::find_icon", theme |-> theme_name,
                       icon_name |-> icon_name, size |-> size, scale |-> scale,
                       result |-> r.result]
           /\ cache' = r.cache
    /\ UNCHANGED <<resolveVars, directory, files, overflow_checks,
                   icon_themes, standalone_icons, first_call, search>>

NextIcons ==
    \/ \E icon_name \in IconNames \cup {EmptyName}, size \in LookupSizes,
          scale \in LookupScales, theme_name \in ThemeArguments :
          \/ CallIconsFindIcon(icon_name, size, scale, theme_name)
          \/ CallIconsCacheFindIcon(icon_name, size, scale, theme_name)
    \/ Return

SpecIcons == InitIcons /\ [][NextIcons]_vars

(***************************************************************************)
(* The theme caches as a state machine: cached lookups and clear_cache on  *)
(* the ThemeCache of b and of its parent hicolor, while icon files come    *)
(* and go on disk.                                                         *)
(***************************************************************************)
CacheThemeNames == {"b", HICOLOR}
CacheSizes == {16, 40}
CacheScales == {1}

\* the icon files that come and go
CachePaths ==
    { JoinPath("usr/b", DirsSmall[1], <<"gear", "png">>),
      JoinPath("usr/b", DirsSmall[1], <<"gear", "svg">>),
      JoinPath("usr/b", DirsSmall[1], <<"star", "png">>),
      JoinPath("usr/hicolor", DirsSmall[2], <<"gear", "png">>) }

\* no cached lookup of the name since the cache was created or cleared
NoCall == [called |-> FALSE]

\* mutant: clear_cache leaves the entry of one name behind
ClearedCacheButOne(theme_cache) == [theme_cache EXCEPT ![<<"star">>] = NoEntry]

\* ThemeCache::clear_cache
ClearedCache(theme_cache) == EmptyCache

InitCache ==
    /\ files \in SUBSET CachePaths
    /\ icon_themes = CacheThemeNames
    /\ standalone_icons = <<>>
    /\ cache = [t \in CacheThemeNames |-> EmptyCache]
    /\ first_call = [t \in CacheThemeNames |-> [n \in CacheIconNames |-> NoCall]]
    /\ search = NoSearch
    /\ overflow_checks = FALSE
    /\ last = LookupIdle
    /\ directory = NoDirectory
    /\ descriptors = [n \in ThemeNames |-> NotATheme]
    /\ requested = <<>>
    /\ ResolveStart
    /\ first_result = NotRun

\* the record of the first cached lookup of a name
Remember(theme_name, icon_name, size, scale, result) ==
    IF first_call[theme_name][icon_name] = NoCall
    THEN [first_call EXCEPT ![theme_name][icon_name] =
              [called |-> TRUE, size |-> size, scale |-> scale, result |-> result]]
    ELSE first_call

CallCachedFindIconHere(theme_name, icon_name, size, scale) ==
    /\ last = LookupIdle
    /\ \E r \in {CachedFindIconHere(LookupThemes[theme_name], cache[theme_name], icon_name,
                                    size, scale, overflow_checks)} :
           /\ last' = [op |-> "ThemeCache::find_icon_here", theme |-> theme_name,
                       icon_name |-> icon_name, size |-> size, scale |-> scale,
                       result |-> r.result, scanned |-> r.scanned]
           /\ cache' = [cache EXCEPT ![theme_name] = r.cache]
           /\ first_call' = Remember(theme_name, icon_name, size, scale, r.result)
    /\ UNCHANGED <<resolveVars, directory, files, overflow_checks,
                   icon_themes, standalone_icons, search>>

CallCachedFindIcon(theme_name, icon_name, size, scale) ==
    /\ last = LookupIdle
    /\ \E r \in {CachedFindIcon(LookupThemes[theme_name], cache[theme_name], icon_name,
                                size, scale, overflow_checks)} :
           /\ last' = [op |-> "ThemeCache::find_icon", theme |-> theme_name,
                       icon_name |-> icon_name, size |-> size, scale |-> scale,
                       result |-> r.result, scanned |-> r.scanned, probed |-> r.probed,
                       memoized |-> {t \in CacheThemeNames : cache[t][icon_name].present}]
           /\ cache' = [cache EXCEPT ![theme_name] = r.cache]
           /\ first_call' = Remember(theme_name, icon_name, size, scale, r.here)
    /\ UNCHANGED <<resolveVars, directory, files, overflow_checks,
                   icon_themes, standalone_icons, search>>

CallClearCache(theme_name) ==
    /\ last = LookupIdle
    /\ last' = [op |-> "ThemeCache::clear_cache", theme |-> theme_name,
                had_entries |-> cache[theme_name] # EmptyCache]
    /\ cache' = [cache EXCEPT ![theme_name] = ClearedCache(cache[theme_name])]
    /\ first_call' = [first_call EXCEPT ![theme_name] = [n \in CacheIconNames |-> NoCall]]
    /\ UNCHANGED <<resolveVars, directory, files, overflow_checks,
                   icon_themes, standalone_icons, search>>

\* the environment: an icon file is installed or removed between two calls
ChangeFiles ==
    /\ last = LookupIdle
    /\ \E path \in CachePaths :
           files' = IF path \in files THEN files \ {path} ELSE files \cup {path}
    /\ UNCHANGED <<resolveVars, directory, overflow_checks, last, cacheVars>>

NextCache ==
    \/ \E theme_name \in CacheThemeNames, icon_name \in CacheIconNames,
          size \in CacheSizes, scale \in CacheScales :
          \/ CallCachedFindIconHere(theme_name, icon_name, size, scale)
          \/ CallCachedFindIcon(theme_name, icon_name, size, scale)
    \/ \E theme_name \in CacheThemeNames : CallClearCache(theme_name)
    \/ ChangeFiles
    \/ Return

SpecCache == InitCache /\ [][NextCache]_vars

(***************************************************************************)
(* The IconSearch builder (search.rs): directories are configured, then    *)
(* searched, then the locations found are turned into Icons.  The search   *)
(* directories of this specification hold files only, so the themes map of *)
(* the Icons is empty; read_dir lists the files of one directory in any    *)
(* order.                                                                  *)
(***************************************************************************)
\* most search directories of one IconSearch
MaxDirs == 2

SearchDirs == {"home/.icons", "usr/share/pixmaps"}

\* the files that may exist at the top level of the search directories
TopPaths ==
    { [base |-> "home/.icons", dir |-> "", file |-> <<"gear", "png">>],
      [base |-> "home/.icons", dir |-> "", file |-> <<"gear", "svg">>],
      [base |-> "usr/share/pixmaps", dir |-> "", file |-> <<"gear", "png">>],
      [base |-> "usr/share/pixmaps", dir |-> "", file |-> <<"star", "xpm">>],
      [base |-> "usr/share/pixmaps", dir |-> "", file |-> <<"README">>] }

StandaloneNames == {<<"gear">>, <<"star">>, <<"README">>}

OptNone == [some |-> FALSE]
OptSome(value) == [some |-> TRUE, value |-> value]

\* Option::expect
Expect(option) ==
    IF option.some THEN [panic |-> FALSE, value |-> option.value]
    ELSE [panic |-> TRUE]

\* Path::file_stem of a file name with an extension
FileStem(path) ==
    IF Len(path.file) < 2 THEN path.file
    ELSE SubSeq(path.file, 1, Len(path.file) - 1)

\* IconSearch::new_from.  Besides the fields of the struct the record keeps
\* what the builder has handed out once it is consumed (exposed: the
\* IconLocations or the Icons, the latter in icon_themes and
\* standalone_icons), the locations those came from (located), and whether
\* an expect failed (panicked).
NewFrom(dirs) ==
    [stage |-> "Initial", dirs |-> dirs, icon_locations |-> OptNone,
     icons |-> OptNone, panicked |-> FALSE, located |-> OptNone,
     exposed |-> "nothing"]

\* base_dir.read_dir(): the entries of one directory, in any order
ReadDir(base_dir) ==
    LET entries == {p \in files : p.base = base_dir}
    IN  {s \in SeqsUpTo(entries, Cardinality(entries)) : Len(s) = Cardinality(entries)}

\* the entries of all search directories, directory after directory
RECURSIVE ReadDirs(_)
ReadDirs(dirs) ==
    IF dirs = <<>> THEN {<<>>}
    ELSE {h \o t : h \in ReadDir(Head(dirs)), t \in ReadDirs(Tail(dirs))}

\* files.flat_map(IconFile::from_path): entries that are no icon file drop out
RECURSIVE IconFilesOf(_)
IconFilesOf(entries) ==
    IF entries = <<>> THEN <<>>
    ELSE LET icon == FromPath(Head(entries))
         IN  IF icon = NoIconFile THEN IconFilesOf(Tail(entries))
             ELSE <<icon>> \o IconFilesOf(Tail(entries))

\* IconSearch::find_icon_locations over one listing of the directories
FindIconLocations(entries) ==
    [standalone_icons |-> IconFilesOf(entries), themes_directories |-> <<>>]

\* mutant: search() that forgets the locations it found
SearchedWithoutLocations(self, entries) ==
    [self EXCEPT !.stage = "LocationsFound", !.icons = OptNone]

\* IconSearch::search
Searched(self, entries) ==
    [self EXCEPT !.stage = "LocationsFound",
                 !.icon_locations = OptSome(FindIconLocations(entries)),
                 !.icons = OptNone]

\* collecting (file_stem, file) pairs into a HashMap: a later pair replaces
\* an earlier pair of the same key
CollectByStem(icons) ==
    [n \in {FileStem(icons[i].path) : i \in DOMAIN icons} |->
        icons[Max({i \in DOMAIN icons : FileStem(icons[i].path) = n})]]

\* IconLocations::icons
IconLocationsIcons(locations) ==
    [standalone_icons |-> CollectByStem(locations.standalone_icons), themes |-> {}]

\* IconLocations::standalone_icon: the first file whose stem is the name
StandaloneIcon(locations, icon_name) ==
    LET icons == locations.standalone_icons
        hits == {i \in DOMAIN icons : FileStem(icons[i].path) = icon_name}
    IN  IF hits = {} THEN NotFound ELSE Found(icons[Min(hits)])

InitSearch ==
    /\ files \in SUBSET TopPaths
    /\ search \in {NewFrom(dirs) : dirs \in SeqsUpTo(SearchDirs, 1)}
    /\ icon_themes = {}
    /\ standalone_icons = <<>>
    /\ cache = <<>>
    /\ first_call = <<>>
    /\ overflow_checks = FALSE
    /\ last = LookupIdle
    /\ directory = NoDirectory
    /\ descriptors = [n \in ThemeNames |-> NotATheme]
    /\ requested = <<>>
    /\ ResolveStart
    /\ first_result = NotRun

\* IconSearch::add_directories
AddDirectories(extra_dirs) ==
    /\ search.stage = "Initial"
    /\ Len(search.dirs) + Len(extra_dirs) <= MaxDirs
    /\ search' = [search EXCEPT !.dirs = search.dirs \o extra_dirs]
    /\ UNCHANGED <<resolveVars, lookupVars, icon_themes, standalone_icons, cache,
                   first_call>>

Search ==
    /\ search.stage = "Initial"
    /\ \E entries \in ReadDirs(search.dirs) : search' = Searched(search, entries)
    /\ UNCHANGED <<resolveVars, lookupVars, icon_themes, standalone_icons, cache,
                   first_call>>

\* IconSearch<LocationsFound>::icon_locations, and a lookup in the borrowed
\* locations
CallIconLocations(icon_name) ==
    /\ search.stage = "LocationsFound"
    /\ LET borrowed == Expect(search.icon_locations)
       IN  IF borrowed.panic
           THEN /\ search' = [search EXCEPT !.panicked = TRUE]
                /\ UNCHANGED last
           ELSE /\ last' = [op |-> "IconLocations::standalone_icon",
                            icon_name |-> icon_name,
                            result |-> StandaloneIcon(borrowed.value, icon_name)]
                /\ UNCHANGED search
    /\ UNCHANGED <<resolveVars, directory, files, overflow_checks, icon_themes,
                   standalone_icons, cache, first_call>>

\* IconSearch<LocationsFound>::into_icon_locations
IntoIconLocations ==
    /\ search.stage = "LocationsFound"
    /\ LET moved == Expect(search.icon_locations)
       IN  IF moved.panic
           THEN search' = [search EXCEPT !.panicked = TRUE]
           ELSE search' = [search EXCEPT !.stage = "consumed",
                                         !.icon_locations = OptNone,
                                         !.located = OptSome(moved.value),
                                         !.exposed = "IconLocations"]
    /\ UNCHANGED <<resolveVars, lookupVars, icon_themes, standalone_icons, cache,
                   first_call>>

\* IconSearch<LocationsFound>::finish, the first half of icons()
IconSearchFinish ==
    /\ search.stage = "LocationsFound"
    /\ LET moved == Expect(search.icon_locations)
       IN  IF moved.panic
           THEN search' = [search EXCEPT !.panicked = TRUE]
           ELSE search' = [search EXCEPT !.stage = "Finished",
                                         !.icon_locations = OptNone,
                                         !.icons = OptSome(IconLocationsIcons(moved.value)),
                                         !.located = OptSome(moved.value)]
    /\ UNCHANGED <<resolveVars, lookupVars, icon_themes, standalone_icons, cache,
                   first_call>>

\* IconSearch<Finished>::icons, the second half of icons()
FinishedIcons ==
    /\ search.stage = "Finished"
    /\ LET moved == Expect(search.icons)
       IN  IF moved.panic
           THEN /\ search' = [search EXCEPT !.panicked = TRUE]
                /\ UNCHANGED <<icon_themes, standalone_icons>>
           ELSE /\ search' = [search EXCEPT !.stage = "consumed", !.icons = OptNone,
                                            !.exposed = "Icons"]
                /\ icon_themes' = moved.value.themes
                /\ standalone_icons' = moved.value.standalone_icons
    /\ UNCHANGED <<resolveVars, lookupVars, cache, first_call>>

\* IconLocations::icons on the locations moved out of the builder
CallIconLocationsIcons ==
    /\ search.exposed = "IconLocations"
    /\ search' = [search EXCEPT !.exposed = "Icons"]
    /\ icon_themes' = IconLocationsIcons(search.located.value).themes
    /\ standalone_icons' = IconLocationsIcons(search.located.value).standalone_icons
    /\ UNCHANGED <<resolveVars, lookupVars, cache, first_call>>

\* IconLocations::standalone_icon on the locations moved out of the builder
CallStandaloneIcon(icon_name) ==
    /\ search.exposed = "IconLocations"
    /\ last' = [op |-> "IconLocations::standalone_icon", icon_name |-> icon_name,
                result |-> StandaloneIcon(search.located.value, icon_name)]
    /\ UNCHANGED <<resolveVars, directory, files, overflow_checks, cacheVars>>

\* Icons::find_standalone_icon on the Icons moved out of the builder
CallFindStandaloneIcon(icon_name) ==
    /\ search.exposed = "Icons"
    /\ last' = [op |-> "Icons::find_standalone_icon", icon_name |-> icon_name,
                result |-> FindStandaloneIcon(icon_name)]
    /\ UNCHANGED <<resolveVars, directory, files, overflow_checks, cacheVars>>

NextSearch ==
    \/ \E extra_dir \in SearchDirs : AddDirectories(<<extra_dir>>)
    \/ Search
    \/ \E icon_name \in StandaloneNames : CallIconLocations(icon_name)
    \/ IntoIconLocations
    \/ IconSearchFinish
    \/ FinishedIcons
    \/ \E icon_name \in StandaloneNames : CallStandaloneIcon(icon_name)
    \/ CallIconLocationsIcons
    \/ \E icon_name \in StandaloneNames : CallFindStandaloneIcon(icon_name)

SpecSearch == InitSearch /\ [][NextSearch]_vars

(***************************************************************************)
(* Claims about theme resolution.                                          *)
(***************************************************************************)
Loadable == {n \in ThemeNames : descriptors[n].loadable}

\* the keys of the returned map
Keys == {n \in ThemeNames : full_themes[n].some}

\* names reachable from S through the declared parents of loadable themes
RECURSIVE ReachFrom(_, _)
ReachFrom(S, k) ==
    IF k = 0
    THEN S
    ELSE ReachFrom(S \cup UNION {Range(descriptors[n].inherits) : n \in S \cap Loadable},
                   k - 1)

Reachable == ReachFrom(Range(requested), Cardinality(ThemeNames))

\* C1 (as claimed): resolve_only never panics, whatever the declared parent
\* lists are (missing parents, self-inheritance, cycles, hicolor with parents).
C1_NeverPanics == pc # "panicked"

\* C2: every constructed theme node has an ancestor list without repetition
\* that does not contain the theme itself.
C2_AncestorsDistinct ==
    \A n \in ThemeNames :
        full_themes[n].some =>
            /\ NoDup(full_themes[n].inherits_from)
            /\ n \notin Range(full_themes[n].inherits_from)

\* a returned map in which one theme has three distinct ancestors and one of
\* them is declared as a parent by two themes of the chain
C2_Witness ==
    /\ pc = "done"
    /\ \E n \in Keys :
          /\ Len(full_themes[n].inherits_from) = 3
          /\ \E p \in Range(full_themes[n].inherits_from) :
                Cardinality({m \in {n} \cup Range(full_themes[n].inherits_from) :
                                p \in Range(descriptors[m].inherits)}) >= 2

\* C3 (as claimed): when hicolor is loadable, every node of the returned map,
\* the hicolor node included, has hicolor as the last element of its
\* ancestor list.
C3_EveryNodeEndsWithHicolor ==
    (pc = "done" /\ HICOLOR \in Loadable) =>
        \A n \in Keys :
            /\ full_themes[n].inherits_from # <<>>
            /\ Last(full_themes[n].inherits_from) = HICOLOR

\* C3 (amended): when hicolor is loadable, every node of the returned map
\* other than hicolor has hicolor as the last element of its ancestor list,
\* and the hicolor node's own ancestor list is empty.
C3_OthersEndWithHicolor ==
    (pc = "done" /\ HICOLOR \in Loadable) =>
        /\ HICOLOR \in Keys
        /\ full_themes[HICOLOR].inherits_from = <<>>
        /\ \A n \in Keys \ {HICOLOR} :
              /\ full_themes[n].inherits_from # <<>>
              /\ Last(full_themes[n].inherits_from) = HICOLOR

\* a returned map with a theme that has a real parent, where neither declares
\* hicolor, and whose ancestor list still ends with hicolor
C3_Witness ==
    /\ pc = "done"
    /\ HICOLOR \in Loadable
    /\ \E n \in Keys \ {HICOLOR} :
          /\ Len(full_themes[n].inherits_from) >= 2
          /\ \A m \in {n} \cup Range(full_themes[n].inherits_from) :
                HICOLOR \notin Range(descriptors[m].inherits)
          /\ Last(full_themes[n].inherits_from) = HICOLOR

\* C4: the keys of the returned map are exactly the loadable names among the
\* requested names, the names reachable from them and hicolor; no name that
\* failed to load is in any ancestor list.
C4_KeysAreLoadableClosure ==
    pc = "done" =>
        /\ Keys = (Reachable \cup {HICOLOR}) \cap Loadable
        /\ \A n \in Keys : Range(full_themes[n].inherits_from) \subseteq Loadable

\* a returned map where a requested name failed to load, a declared parent
\* failed to load, another parent loaded, and hicolor is a key although it
\* was neither requested nor declared
C4_Witness ==
    /\ pc = "done"
    /\ Range(requested) \ Loadable # {}
    /\ \E n \in Keys : Range(descriptors[n].inherits) \ Loadable # {}
    /\ \E n \in Keys : Range(descriptors[n].inherits) \cap (Loadable \ {n}) # {}
    /\ HICOLOR \in Keys
    /\ HICOLOR \notin Range(requested)
    /\ \A n \in Keys : HICOLOR \notin Range(descriptors[n].inherits)

\* C5 (as claimed): two calls of resolve_only over the same descriptors and
\* the same requested names end the same way, with the same keys and the same
\* ancestor lists, whatever order the hash map enumerates the themes in.
C5_SameOutcomeTwice ==
    (first_result.kind # "none" /\ pc \in {"done", "panicked"}) =>
        /\ pc = first_result.kind
        /\ pc = "done" => full_themes = first_result.map

(***************************************************************************)
(* Claims about the size predicates.                                       *)
(***************************************************************************)
\* the sizes a directory accepts, by kind, in plain integers
InWindow(dir, icon_size) ==
    CASE dir.directory_type = "Fixed" -> icon_size = dir.size
      [] dir.directory_type = "Scalable" ->
             dir.min_size <= icon_size /\ icon_size <= dir.max_size
      [] dir.directory_type = "Threshold" ->
             /\ dir.size - icon_size <= dir.threshold
             /\ icon_size - dir.size <= dir.threshold

\* C9: matches_size is true exactly when the scales are equal and the size
\* is the nominal size (Fixed), within [min_size, max_size] (Scalable) or at
\* most threshold away from the nominal size (Threshold); a Threshold
\* directory of size 32 and threshold 2 at scale 1 accepts exactly 30..34.
C9_MatchesSizeIsWindow ==
    last.op = "matches_size" =>
        /\ last.result = (last.scale = directory.scale /\ InWindow(directory, last.size))
        /\ (/\ directory.directory_type = "Threshold"
            /\ directory.size = 32
            /\ directory.threshold = 2
            /\ directory.scale = 1
            /\ last.scale = 1
            /\ last.size \in 29..35) => (last.result = (last.size \in 30..34))

\* the Threshold 32 +-2 directory accepts 34 at scale 1
C9_Witness ==
    /\ last.op = "matches_size"
    /\ directory.directory_type = "Threshold"
    /\ directory.size = 32
    /\ directory.threshold = 2
    /\ directory.scale = 1
    /\ last.scale = 1
    /\ last.size = 34
    /\ last.result = TRUE

\* C10 (as claimed): whenever matches_size accepts a request, size_distance
\* of the same request is 0, for directories of every kind.
C10_MatchImpliesZeroDistance ==
    (/\ last.op = "size_distance"
     /\ ~last.result.panic
     /\ MatchesSize(directory, last.size, last.scale)) =>
        last.result.value = U32ZERO

\* C11 (as claimed): size_distance is never 0 for a request whose scale
\* differs from the directory's, and a distance of 0 implies matches_size.
C11_ZeroDistanceImpliesMatch ==
    (/\ last.op = "size_distance"
     /\ ~last.result.panic
     /\ last.result.value = U32ZERO) =>
        /\ last.scale = directory.scale
        /\ MatchesSize(directory, last.size, last.scale)

\* C11 (amended): size_distance compares the products size x scale and does
\* not look at the scale on its own; for a Fixed or Scalable directory it
\* returns 0 exactly when the directory's size x scale equals the request's
\* size x scale in u32 arithmetic, whether or not the scales are equal.
C11_ZeroIffProductsEqual ==
    (/\ last.op = "size_distance"
     /\ ~last.result.panic
     /\ directory.directory_type \in {"Fixed", "Scalable"}) =>
        (last.result.value = U32ZERO) =
            (MulU32(U32Of(directory.size), U32Of(directory.scale)).v
                 = MulU32(U32Of(last.size), U32Of(last.scale)).v)

\* C11 witness: a Fixed directory is at distance 0 from a request of another
\* scale, which it does not match.
C11_Witness ==
    /\ last.op = "size_distance"
    /\ directory.directory_type = "Fixed"
    /\ directory.scale # last.scale
    /\ ~last.result.panic
    /\ last.result.value = U32ZERO
    /\ ~MatchesSize(directory, last.size, last.scale)

(***************************************************************************)
(* Claims about icon lookup in a resolved theme.                           *)
(***************************************************************************)
\* a theme level holds some file for the name
HoldsAny(theme, icon_name) ==
    \E b \in DOMAIN theme.base_dirs, d \in DOMAIN theme.directories, e \in DOMAIN EXTENSIONS :
        JoinPath(theme.base_dirs[b], theme.directories[d], FileName(icon_name, EXTENSIONS[e])) \in files

\* the directory of a theme with a given name
DirNamed(theme, name) ==
    theme.directories[CHOOSE d \in DOMAIN theme.directories :
                          theme.directories[d].directory_name = name]

\* C6: find_icon returns what find_icon_here returns for the first theme of
\* <<the theme itself>> \o inherits_from in which find_icon_here yields a
\* file, and absence when none does; the first level that holds any file
\* for the name is the level the result comes from.
C6_FirstLevelWithAFile ==
    last.op = "find_icon" =>
        LET chain == <<last.theme>> \o LookupThemes[last.theme].inherits_from
            Here(i) == FindIconHere(LookupThemes[chain[i]], last.icon_name, last.size,
                                    last.scale, overflow_checks)
            hits == {i \in DOMAIN chain : Here(i).kind = "file"}
            holding == {i \in DOMAIN chain : HoldsAny(LookupThemes[chain[i]], last.icon_name)}
        IN  /\ hits = {} => last.result = NotFound
            /\ hits # {} => last.result = Here(Min(hits))
            /\ holding = {} => last.result = NotFound
            /\ holding # {} =>
                   /\ last.result.kind = "file"
                   /\ last.result.file.path.base \in
                          Range(LookupThemes[chain[Min(holding)]].base_dirs)

\* C6 witness: theme a holds only a file in a directory that does not match
\* the request, its parent b holds an exact match, and find_icon on a
\* returned a's file.
C6_Witness ==
    /\ last.op = "find_icon"
    /\ last.theme = "a"
    /\ last.result.kind = "file"
    /\ last.result.file.path.base \in Range(LookupThemes["a"].base_dirs)
    /\ ~MatchesSize(DirNamed(LookupThemes["a"], last.result.file.path.dir),
                    last.size, last.scale)
    /\ LET r == FindIconHere(LookupThemes["b"], last.icon_name, last.size, last.scale,
                             overflow_checks)
       IN  /\ r.kind = "file"
           /\ MatchesSize(DirNamed(LookupThemes["b"], r.file.path.dir),
                          last.size, last.scale)

\* C7: when a matching directory holds a file for the name, find_icon_here
\* returns the file that is first by base location, then by matching
\* directory in declaration order, then by extension in the order png, xpm,
\* svg.
C7_FirstExactFile ==
    last.op = "find_icon_here" =>
        LET theme == LookupThemes[last.theme]
            canonical == <<"png", "xpm", "svg">>
            PathOf(h) == JoinPath(theme.base_dirs[h[1]], theme.directories[h[2]],
                                  FileName(last.icon_name, canonical[h[3]]))
            Holds == {h \in (DOMAIN theme.base_dirs) \X (DOMAIN theme.directories)
                                \X (DOMAIN canonical) :
                         /\ MatchesSize(theme.directories[h[2]], last.size, last.scale)
                         /\ PathOf(h) \in files}
            Before(h, g) == \/ h[1] < g[1]
                            \/ h[1] = g[1] /\ h[2] < g[2]
                            \/ h[1] = g[1] /\ h[2] = g[2] /\ h[3] <= g[3]
        IN  Holds # {} =>
                \E h \in Holds :
                    /\ \A g \in Holds : Before(h, g)
                    /\ last.result.kind = "file"
                    /\ last.result.file.path = PathOf(h)
                    /\ last.result.file.file_type = FileTypeFromExt(canonical[h[3]])

\* C7 witness: the second base location holds the icon in the first
\* matching directory, the first base location holds it in a later matching
\* directory, and the file of the first base location was returned.
C7_Witness ==
    /\ last.op = "find_icon_here"
    /\ last.theme = "a"
    /\ last.result.kind = "file"
    /\ last.result.file.path.base = "home/a"
    /\ last.result.file.path.dir = "scalable"
    /\ MatchesSize(DirNamed(LookupThemes["a"], "16x16"), last.size, last.scale)
    /\ \E e \in DOMAIN EXTENSIONS :
           JoinPath("usr/a", DirNamed(LookupThemes["a"], "16x16"),
                    FileName(last.icon_name, EXTENSIONS[e])) \in files

\* C8: when no matching directory holds the icon, find_icon_here returns a
\* file from the directory that is first in declaration order among the
\* directories holding the icon (in any base location) at the minimum
\* size_distance.
C8_ClosestFirstInDeclarationOrder ==
    last.op = "find_icon_here" =>
        LET theme == LookupThemes[last.theme]
            dirs == theme.directories
            HoldsDir(d) ==
                \E b \in DOMAIN theme.base_dirs, e \in DOMAIN EXTENSIONS :
                    JoinPath(theme.base_dirs[b], dirs[d],
                             FileName(last.icon_name, EXTENSIONS[e])) \in files
            holding == {d \in DOMAIN dirs : HoldsDir(d)}
            Distance(d) == SizeDistance(dirs[d], last.size, last.scale, overflow_checks).value
            closest == {d \in holding : \A g \in holding : LeU32(Distance(d), Distance(g))}
        IN  (/\ holding # {}
             /\ \A d \in holding : ~MatchesSize(dirs[d], last.size, last.scale)) =>
                /\ last.result.kind = "file"
                /\ last.result.file.path.dir = dirs[Min(closest)].directory_name


(***************************************************************************)
(* Claims about Icons and IconsCache.                                      *)
(***************************************************************************)
IconsOps == {"Icons::find_icon", "IconsCache::find_icon"}

\* some level of the chain of a resolved theme holds a file for the name
ChainHolds(theme_name, icon_name) ==
    \E t \in {theme_name} \cup Range(LookupThemes[theme_name].inherits_from) :
        HoldsAny(LookupThemes[t], icon_name)

\* C12 (as claimed): find_icon returns None only if neither the theme and
\* its parents nor the standalone icons hold the name; whenever a standalone
\* icon of the name is known the result is present, whatever the theme
\* argument and the installed themes.
C12_StandaloneKnownGivesResult ==
    (/\ last.op \in IconsOps
     /\ last.icon_name \in DOMAIN standalone_icons) =>
        last.result.kind = "file"

\* C13: for a resolved theme whose chain holds no file of the name and a
\* standalone icon of the name, find_icon returns the standalone icon at
\* every size and scale; and the standalone icon is returned only when no
\* level of the chain holds a file of the name.
C13_StandaloneAfterChain ==
    (/\ last.op \in IconsOps
     /\ last.theme \in icon_themes
     /\ last.icon_name \in DOMAIN standalone_icons) =>
        (last.result = Found(standalone_icons[last.icon_name]))
            = ~ChainHolds(last.theme, last.icon_name)

\* C13 witness: files exist, none of them in the chain of the theme asked
\* for, and the standalone icon was returned.
C13_Witness ==
    /\ last.op = "Icons::find_icon"
    /\ last.theme \in icon_themes
    /\ files # {}
    /\ last.icon_name \in DOMAIN standalone_icons
    /\ last.result = Found(standalone_icons[last.icon_name])

\* C14: for a theme name that is not in the resolved map, find_icon returns
\* what find_icon returns for "hicolor", for Icons and for IconsCache.
C14_UnknownThemeIsHicolor ==
    /\ (last.op = "Icons::find_icon" /\ last.theme \notin icon_themes) =>
           last.result = IconsFindIcon(last.icon_name, last.size, last.scale, HICOLOR,
                                       overflow_checks)
    /\ (last.op = "IconsCache::find_icon" /\ last.theme \notin icon_themes) =>
           last.result = IconsCacheFindIcon(last.icon_name, last.size, last.scale, HICOLOR,
                                            overflow_checks).result

\* C14 witness: a name that is no theme was asked for and a file of hicolor
\* was returned.
C14_Witness ==
    /\ last.op \in IconsOps
    /\ last.theme = "unknown"
    /\ last.result.kind = "file"
    /\ last.result.file.path.base = "usr/hicolor"


(***************************************************************************)
(* Claims about the theme caches.                                          *)
(***************************************************************************)
\* the entry of the name reflects the files that exist now
EntryCurrent(theme_name, icon_name) ==
    cache[theme_name][icon_name].icon_files
        = FindIconFiles(LookupThemes[theme_name], icon_name)

\* C15 (as claimed): over unchanged files a cached lookup returns what the
\* uncached lookup returns, for find_icon_here and for find_icon, also with
\* several extensions and with only a closest match.
C15_CachedEqualsUncached ==
    /\ (last.op = "ThemeCache::find_icon_here" /\ EntryCurrent(last.theme, last.icon_name)) =>
           last.result = FindIconHere(LookupThemes[last.theme], last.icon_name, last.size,
                                      last.scale, overflow_checks)
    /\ (last.op = "ThemeCache::find_icon" /\ EntryCurrent(last.theme, last.icon_name)) =>
           last.result = FindIcon(LookupThemes[last.theme], last.icon_name, last.size,
                                  last.scale, overflow_checks)

\* C16: once find_icon_here was called for a name, the cache holds an entry
\* for the name, and every later find_icon_here with the arguments of that
\* first call returns the result of the first call, until clear_cache.
C16_SameAsFirstCall ==
    \A t \in CacheThemeNames, n \in CacheIconNames :
        first_call[t][n] # NoCall =>
            /\ cache[t][n].present
            /\ (/\ last.op = "ThemeCache::find_icon_here"
                /\ last.theme = t
                /\ last.icon_name = n
                /\ last.size = first_call[t][n].size
                /\ last.scale = first_call[t][n].scale) =>
                   last.result = first_call[t][n].result

\* C16 witness: a later call answered from the entry with the file of the
\* first call, which has been removed from disk since.
C16_Witness ==
    /\ last.op = "ThemeCache::find_icon_here"
    /\ ~last.scanned
    /\ last.size = first_call[last.theme][last.icon_name].size
    /\ last.scale = first_call[last.theme][last.icon_name].scale
    /\ last.result.kind = "file"
    /\ last.result = first_call[last.theme][last.icon_name].result
    /\ last.result.file.path \notin files

\* every (directory, file) pair of the theme's own directories for the name
Candidates(theme_name, icon_name) ==
    LET theme == LookupThemes[theme_name]
    IN  {[dir |-> d,
          ico |-> FromPath(JoinPath(theme.base_dirs[b], theme.directories[d],
                                    FileName(icon_name, EXTENSIONS[e])))] :
            <<b, d, e>> \in {h \in (DOMAIN theme.base_dirs) \X (DOMAIN theme.directories)
                                       \X (DOMAIN EXTENSIONS) :
                                JoinPath(theme.base_dirs[h[1]], theme.directories[h[2]],
                                         FileName(icon_name, EXTENSIONS[h[3]])) \in files}}

C18_OnlyClearRemoves ==
    [][\A t \in CacheThemeNames :
           /\ (last = LookupIdle /\ last'.op = "ThemeCache::clear_cache" /\ last'.theme = t) =>
                  \A n \in CacheIconNames : ~cache'[t][n].present
           /\ \A n \in CacheIconNames :
                  (cache[t][n].present /\ ~cache'[t][n].present) =>
                      (last'.op = "ThemeCache::clear_cache" /\ last'.theme = t)
           /\ \A n \in CacheIconNames :
                  (/\ last = LookupIdle
                   /\ last'.op \in {"ThemeCache::find_icon_here", "ThemeCache::find_icon"}
                   /\ last'.theme = t
                   /\ last'.icon_name = n
                   /\ ~cache[t][n].present) =>
                      (last'.scanned /\ cache'[t][n].present)]_vars

\* C18 witness: clear_cache was called on a cache with entries and left none
C18_Witness ==
    /\ last.op = "ThemeCache::clear_cache"
    /\ last.had_entries
    /\ cache[last.theme] = EmptyCache

\* C19 (as claimed): a cached find_icon that goes on to the ancestors uses
\* the cache of each ancestor it consults: the ancestor's entry of the name
\* exists afterwards, and an ancestor that had the entry is not searched on
\* disk again.
C19_AncestorCachesUsed ==
    last.op = "ThemeCache::find_icon" =>
        \A i \in DOMAIN last.probed :
            /\ cache[last.probed[i]][last.icon_name].present
            /\ last.probed[i] \notin last.memoized

\* C20: after the first cached lookup of a name on a theme, find_icon_here
\* for that name on that theme does not go to the file system, at any size
\* and scale and also when the first lookup found no file, until
\* clear_cache.
C20_NoScanAfterFirst ==
    [][\A t \in CacheThemeNames, n \in CacheIconNames :
           (/\ first_call[t][n] # NoCall
            /\ last = LookupIdle
            /\ last'.op = "ThemeCache::find_icon_here"
            /\ last'.theme = t
            /\ last'.icon_name = n) => ~last'.scanned]_vars

\* C20 witness: the first lookup of the name found no file, a file of the
\* name exists by now, and a later lookup at another size still answered
\* "no file" without a scan.
C20_Witness ==
    /\ last.op = "ThemeCache::find_icon_here"
    /\ ~last.scanned
    /\ last.result = NotFound
    /\ first_call[last.theme][last.icon_name].result = NotFound
    /\ first_call[last.theme][last.icon_name].size # last.size
    /\ HoldsAny(LookupThemes[last.theme], last.icon_name)

(***************************************************************************)
(* Claims about the IconSearch builder.                                    *)
(***************************************************************************)
StageFields ==
    /\ search.stage = "Initial" =>
           ~search.icon_locations.some /\ ~search.icons.some
    /\ search.stage = "LocationsFound" =>
           search.icon_locations.some /\ ~search.icons.some
    /\ search.stage = "Finished" =>
           search.icons.some /\ ~search.icon_locations.some
    /\ ~search.panicked

StageStep ==
    /\ search'.stage # search.stage =>
           <<search.stage, search'.stage>> \in
               { <<"Initial", "LocationsFound">>, <<"LocationsFound", "Finished">>,
                 <<"LocationsFound", "consumed">>, <<"Finished", "consumed">> }
    /\ search'.stage # search.stage /\ search'.stage \in {"LocationsFound", "Finished"} =>
           search'.dirs = search.dirs

\* C21: the builder only advances Initial -> LocationsFound -> Finished (and
\* is then consumed); Initial holds neither locations nor icons,
\* LocationsFound holds locations and no icons, Finished holds icons and no
\* locations; no expect fails; search() and finish() carry dirs unchanged.
C21_TypeState == []StageFields /\ [][StageStep]_vars

C21_Witness ==
    /\ search.stage = "Finished"
    /\ Len(search.dirs) = 2
    /\ search.icons.value.standalone_icons # <<>>
    /\ search.located.value.standalone_icons # <<>>

\* the search directories that hold a standalone icon of the name
HoldersOf(locations, icon_name) ==
    {locations.standalone_icons[i].path.base :
        i \in {j \in DOMAIN locations.standalone_icons :
                  FileStem(locations.standalone_icons[j].path) = icon_name}}

\* C29: when several search directories hold a standalone icon of one name,
\* Icons::find_standalone_icon and IconLocations::standalone_icon return the
\* same file, the first one found in search order.
C29_SameStandaloneFile ==
    search.exposed = "Icons" =>
        \A icon_name \in StandaloneNames :
            Cardinality(HoldersOf(search.located.value, icon_name)) > 1 =>
                FindStandaloneIcon(icon_name) =
                    StandaloneIcon(search.located.value, icon_name)

(***************************************************************************)
(* Claims about the chains of resolve_only.                                *)
(***************************************************************************)
\* the chains have been computed
Chained == pc \in {"chained", "done", "panicked"}

\* the positions of a chain at which a theme stands
PositionsOf(chain, theme) == {i \in DOMAIN chain : chain[i] = theme}

\* the positions of the other chain members that declare the theme as a
\* parent
DeclarersOf(chain, theme) ==
    {j \in DOMAIN chain : /\ chain[j] # theme
                          /\ theme \in Range(descriptors[chain[j]].inherits)}

\* C22: in the finished chain of every theme, each member other than the head
\* appears exactly once and, unless it is hicolor (moved to the very end), it
\* stands after every other chain member that declares it as a parent.
C22_AfterLastReferencingAncestor ==
    Chained =>
        \A theme \in Surviving(themes) :
            \A i \in 2..Len(theme_chains[theme]) :
                LET member == theme_chains[theme][i]
                IN  /\ PositionsOf(theme_chains[theme], member) = {i}
                    /\ member # HICOLOR =>
                           \A j \in DeclarersOf(theme_chains[theme], member) : j < i

\* C23: whichever order the chains are processed in, walking a chain never
\* meets a theme whose node is to be constructed while a theme in positions
\* 1.. of its chain has no node: no step of the materialization panics.
C23_ParentsConstructedFirst ==
    [][~(pc = "chained" /\ chains_done' # chains_done /\ pc' = "panicked")]_vars

\* the surviving themes reachable from a theme by declared parent names
ReachableSurvivors(theme) ==
    ReachFrom({theme}, Cardinality(ThemeNames)) \cap Surviving(themes)

\* C24: the chain of every surviving theme contains every surviving theme
\* reachable from it by following declared parent names transitively.
C24_ChainHoldsClosure ==
    Chained =>
        \A theme \in Surviving(themes) :
            ReachableSurvivors(theme) \subseteq Range(theme_chains[theme])

\* C25: the finished chain of every surviving theme has the theme itself at
\* position 0.
C25_HeadIsTheme ==
    Chained =>
        \A theme \in Surviving(themes) :
            /\ theme_chains[theme] # <<>>
            /\ Head(theme_chains[theme]) = theme

\* a theme that is among its own ancestors by declaration
OnCycle(name) ==
    name \in ReachFrom(Range(descriptors[name].inherits), Cardinality(ThemeNames))

\* C26: collect_themes terminates for every set of themes, cyclic and
\* self-referential declarations included, loads each name at most once per
\* call, and records a name whose load failed without loading it again or
\* descending from it: the names loaded are the requested names, hicolor,
\* and the declared parents of the names that loaded.
C26_EachNameLoadedOnce ==
    pc # "start" =>
        /\ NoDup(loads)
        /\ Len(loads) <= Cardinality(ThemeNames)
        /\ Range(loads) = ReachFrom(Range(requested) \cup {HICOLOR},
                                    Cardinality(ThemeNames))
        /\ \A name \in ThemeNames :
               themes[name] = IF name \notin Range(loads) THEN "unvisited"
                              ELSE IF name \in Loadable THEN "some" ELSE "none"

\* a collection over a cycle of two themes and a self-referential theme, in
\* which a name that failed to load was asked for more than once
C26_Witness ==
    /\ pc = "pruned"
    /\ \E name \in Range(loads) \cap Loadable :
           /\ OnCycle(name)
           /\ name \notin Range(descriptors[name].inherits)
    /\ \E name \in Range(loads) \cap Loadable :
           name \in Range(descriptors[name].inherits)
    /\ \E name \in Range(loads) \ Loadable :
           Cardinality({m \in Range(loads) \cap Loadable :
                           name \in Range(descriptors[m].inherits)})
             + (IF name \in Range(requested) THEN 1 ELSE 0) >= 2

\* the states the chain loop of a theme goes through
LoopOf(theme) == ChainStates([chain |-> <<theme>>, cursor |-> 0], Surviving(themes))

\* C27: the chain loop of every theme terminates, cyclic inheritance
\* included: at every iteration the chain holds no theme twice and is no
\* longer than the number of surviving themes, the loop runs at most once per
\* surviving theme, and the chain it ends with is the one handed on.
C27_ChainLoopBounded ==
    Chained =>
        \A theme \in Surviving(themes) :
            /\ \A k \in DOMAIN LoopOf(theme) :
                   /\ NoDup(LoopOf(theme)[k].chain)
                   /\ Len(LoopOf(theme)[k].chain) <= Cardinality(Surviving(themes))
                   /\ LoopOf(theme)[k].cursor = k - 1
            /\ Len(LoopOf(theme)) <= Cardinality(Surviving(themes)) + 1
            /\ theme_chains[theme] =
                   HicolorLast(Last(LoopOf(theme)).chain, Surviving(themes))

\* the chain loop of a theme on a cycle of three themes, which runs once per
\* surviving theme and moves its own head
C27_Witness ==
    /\ Chained
    /\ \E theme \in Surviving(themes) :
           /\ OnCycle(theme)
           /\ Cardinality(Surviving(themes)) >= 3
           /\ Len(LoopOf(theme)) = Cardinality(Surviving(themes)) + 1
           /\ Head(Last(LoopOf(theme)).chain) # theme

(***************************************************************************)
(* Claims about the arithmetic of size_distance.                           *)
(***************************************************************************)
\* some operation of the call left the range of u32, which is what makes a
\* build with overflow checks panic
LeftU32Range(dir, icon_size, icon_scale) ==
    SizeDistance(dir, icon_size, icon_scale, TRUE).panic

\* C28: for every directory the index parser accepts and every request,
\* size - threshold, size + threshold and the size x scale products of
\* size_distance stay within 0..2^32-1.
C28_StaysInU32 ==
    last.op = "size_distance" => ~LeftU32Range(directory, last.size, last.scale)

(***************************************************************************)
(* Claims about the extension order of the closest pass.                   *)
(***************************************************************************)
\* the position of an extension in the canonical order
ExtensionRank(ext) == Min({e \in DOMAIN EXTENSIONS : EXTENSIONS[e] = ext})

\* the extensions under which the icon exists next to the given file
ExtensionsBeside(path, icon_name) ==
    {e \in DOMAIN EXTENSIONS :
        Exists([path EXCEPT !.file = FileName(icon_name, EXTENSIONS[e])])}

\* C30: when find_icon_here answers from the closest pass and the winning
\* directory holds the icon under several extensions, the file returned has
\* the first of them in the order png, xpm, svg, as in the exact pass.
C30_ClosestFirstExtension ==
    (/\ last.op = "find_icon_here"
     /\ last.result.kind = "file"
     /\ FirstFile(ExactCandidates(LookupThemes[last.theme], last.icon_name,
                                  last.size, last.scale)).kind = "none") =>
        ExtensionRank(Last(last.result.file.path.file)) =
            Min(ExtensionsBeside(last.result.file.path, last.icon_name))
====
